---- MODULE Spec2Model ----
(***************************************************************************)
(* Thrift proxy router (router_impl.cc): the route matcher that maps call  *)
(* metadata to a cluster, and the Router / UpstreamRequest state machine   *)
(* that acquires a pooled connection, forwards the call and translates     *)
(* upstream events into downstream outcomes.                               *)
(***************************************************************************)
EXTENDS Integers, Sequences, FiniteSets, TLC

\* ------------------------------------------------------------------------
\* Bounds of the model
\* ------------------------------------------------------------------------
\* longest rule list of a RouteMatcher
MaxRules == 2
\* longest method name of a call (in characters)
MaxMethodLen == 2
\* calls one Router serves one after the other
MaxCalls == 2
\* upstream data deliveries per call
MaxData == 2

\* ------------------------------------------------------------------------
\* Strings: method and service names are sequences of characters, so that
\* prefix / suffix tests are computed; cluster and header names are atoms.
\* ------------------------------------------------------------------------
Alphabet == {"a", ":"}

Strs(n) == UNION {[1..k -> Alphabet] : k \in 0..n}

\* absl::StartsWith
StartsWith(s, p) == Len(p) <= Len(s) /\ SubSeq(s, 1, Len(p)) = p

\* absl::EndsWith
EndsWith(s, p) == Len(p) <= Len(s) /\ SubSeq(s, Len(s) - Len(p) + 1, Len(s)) = p

Clusters == {"C1", "C2"}

\* the one header a rule may name as its cluster source
ClusterHeaderName == "x-cluster"

\* the header a rule's header matcher may require
MatchHeaderName == "x-key"

HeaderNames == {ClusterHeaderName, MatchHeaderName}

Hosts == {"h1"}

\* the pooled upstream connection; the Router borrows at most one at a time
Conns == {"c1"}

\* a null pointer (host, connection data, connection state)
Null == "null"

\* ConnectionPool::PoolFailureReason
Reasons == {"Overflow", "LocalConnectionFailure", "RemoteConnectionFailure", "Timeout"}

VARIABLES
  \* the RouteConfiguration the RouteMatcher was constructed from
  route_config,
  \* RouteMatcher::routes_ : the route entries built from configuration
  routes_,
  \* the MessageMetadata and random_value of the last RouteMatcher::route call
  metadata, random_value,
  \* what that call returned
  route_result,
  \* Router::upstream_request_ : the UpstreamRequest and its fields, or none
  upstream_request_,
  \* the connection pool's side: is an acquisition outstanding
  pool,
  \* the pooled connections: attached protocol state, borrow, open
  conns,
  \* where the downstream decoder stands in the current call
  dpc,
  \* what the Router did to its collaborators during the current call
  hist,
  \* the process ran into undefined behaviour and died
  crashed,
  \* calls begun so far
  ncalls

matcherVars == <<route_config, routes_, metadata, random_value, route_result>>

routerVars == <<upstream_request_, pool, conns, dpc, hist, crashed, ncalls>>

vars == <<route_config, routes_, metadata, random_value, route_result,
          upstream_request_, pool, conns, dpc, hist, crashed, ncalls>>

\* ------------------------------------------------------------------------
\* Route entries (RouteEntryImplBase and its two subclasses)
\* ------------------------------------------------------------------------
\* a null RouteConstSharedPtr
NoRoute == [found |-> FALSE, via |-> "none", cluster |-> ""]

\* route() was not called yet
NotRouted == [found |-> FALSE, via |-> "not routed", cluster |-> ""]

\* a total weight that counts the first entry only
SumWeightsFirst(ws) == IF ws = <<>> THEN 0 ELSE Head(ws).cluster_weight_

\* RouteEntryImplBase constructor: the weighted entries and their weight sum
RECURSIVE SumWeights(_)
SumWeights(ws) ==
  IF ws = <<>> THEN 0 ELSE Head(ws).cluster_weight_ + SumWeights(Tail(ws))

RouteEntryImplBase(cfg) ==
  [ cluster_name_         |-> cfg.cluster,
    config_headers_       |-> cfg.headers,
    cluster_header_       |-> cfg.cluster_header,
    weighted_clusters_    |-> cfg.weighted_clusters,
    total_cluster_weight_ |-> SumWeights(cfg.weighted_clusters) ]

\* a method rule constructor that accepts every configuration
MethodNameAccepted(cfg) ==
  [ ok    |-> TRUE,
    kind  |-> "method",
    name_ |-> cfg.name,
    invert_ |-> cfg.invert,
    base  |-> RouteEntryImplBase(cfg) ]

\* MethodNameRouteEntryImpl constructor; ok = FALSE is the EnvoyException
MethodNameRouteEntryImpl(cfg) ==
  [ ok    |-> ~(cfg.name = <<>> /\ cfg.invert),
    kind  |-> "method",
    name_ |-> cfg.name,
    invert_ |-> cfg.invert,
    base  |-> RouteEntryImplBase(cfg) ]

\* a service rule that keeps the configured name as it is
ServiceNameAsConfigured(cfg) ==
  [ ok    |-> ~(cfg.name = <<>> /\ cfg.invert),
    kind  |-> "service",
    name_ |-> cfg.name,
    invert_ |-> cfg.invert,
    base  |-> RouteEntryImplBase(cfg) ]

\* ServiceNameRouteEntryImpl constructor: the name is normalised to end in ':'
ServiceNameRouteEntryImpl(cfg) ==
  [ ok    |-> ~(cfg.name = <<>> /\ cfg.invert),
    kind  |-> "service",
    name_ |-> IF cfg.name # <<>> /\ ~EndsWith(cfg.name, <<":">>)
              THEN cfg.name \o <<":">> ELSE cfg.name,
    invert_ |-> cfg.invert,
    base  |-> RouteEntryImplBase(cfg) ]

\* RouteMatcher constructor: one entry per configured route, in order
BuildEntry(cfg) ==
  IF cfg.kind = "method" THEN MethodNameRouteEntryImpl(cfg)
  ELSE ServiceNameRouteEntryImpl(cfg)

RouteMatcher(config) ==
  [ ok      |-> \A i \in 1..Len(config) : BuildEntry(config[i]).ok,
    routes_ |-> [i \in 1..Len(config) |-> BuildEntry(config[i])] ]

\* WeightedClusterUtil::pickCluster: the first entry whose cumulative weight
\* exceeds random_value % total_cluster_weight_
RECURSIVE PickFrom(_, _, _)
PickFrom(ws, selected, begin) ==
  IF ws = <<>> THEN NoRoute
  ELSE LET end == begin + Head(ws).cluster_weight_ IN
       IF selected < end
       THEN [found |-> TRUE, via |-> "weighted", cluster |-> Head(ws).cluster_name_]
       ELSE PickFrom(Tail(ws), selected, end)

pickCluster(weighted_clusters, total_cluster_weight, random) ==
  PickFrom(weighted_clusters, random % total_cluster_weight, 0)

\* a clusterEntry that honours the last value of a multi-valued header
clusterEntryLastValue(base, random, md) ==
  IF base.weighted_clusters_ # <<>>
  THEN pickCluster(base.weighted_clusters_, base.total_cluster_weight_, random)
  ELSE IF base.cluster_header_ # ""
  THEN LET entry == md.headers[base.cluster_header_] IN
       IF entry # <<>>
       THEN [found |-> TRUE, via |-> "dynamic", cluster |-> entry[Len(entry)]]
       ELSE NoRoute
  ELSE [found |-> TRUE, via |-> "static", cluster |-> base.cluster_name_]

\* RouteEntryImplBase::clusterEntry
clusterEntry(base, random, md) ==
  IF base.weighted_clusters_ # <<>>
  THEN pickCluster(base.weighted_clusters_, base.total_cluster_weight_, random)
  ELSE IF base.cluster_header_ # ""
  THEN LET entry == md.headers[base.cluster_header_] IN
       IF entry # <<>>
       THEN [found |-> TRUE, via |-> "dynamic", cluster |-> entry[1]]
       ELSE NoRoute
  ELSE [found |-> TRUE, via |-> "static", cluster |-> base.cluster_name_]

\* RouteEntryImplBase::headersMatch: every configured header matcher (a
\* presence matcher here) must succeed
headersMatch(base, md) ==
  \A h \in base.config_headers_ : md.headers[h] # <<>>

\* a method-name match that an inverted rule needs a method name for
MethodNameMatchesNamed(entry, md, random) ==
  IF headersMatch(entry.base, md)
  THEN LET matches == entry.name_ = <<>>
                       \/ (md.hasMethodName /\ md.methodName = entry.name_) IN
       IF (matches # entry.invert_) /\ (entry.invert_ => md.hasMethodName)
       THEN clusterEntry(entry.base, random, md)
       ELSE NoRoute
  ELSE NoRoute

\* MethodNameRouteEntryImpl::matches
MethodNameMatches(entry, md, random) ==
  IF headersMatch(entry.base, md)
  THEN LET matches == entry.name_ = <<>>
                       \/ (md.hasMethodName /\ md.methodName = entry.name_) IN
       IF matches # entry.invert_
       THEN clusterEntry(entry.base, random, md)
       ELSE NoRoute
  ELSE NoRoute

\* ServiceNameRouteEntryImpl::matches
ServiceNameMatches(entry, md, random) ==
  IF headersMatch(entry.base, md)
  THEN LET matches == entry.name_ = <<>>
                       \/ (md.hasMethodName /\ StartsWith(md.methodName, entry.name_)) IN
       IF matches # entry.invert_
       THEN clusterEntry(entry.base, random, md)
       ELSE NoRoute
  ELSE NoRoute

\* the virtual RouteEntryImplBase::matches
Matches(entry, md, random) ==
  IF entry.kind = "method" THEN MethodNameMatches(entry, md, random)
  ELSE ServiceNameMatches(entry, md, random)

\* a route loop that keeps looking and returns the last route found
RECURSIVE RouteFromLast(_, _, _, _)
RouteFromLast(routes, i, md, random) ==
  IF i > Len(routes) THEN NoRoute
  ELSE LET route_entry == Matches(routes[i], md, random)
           later == RouteFromLast(routes, i + 1, md, random)
       IN IF later.found THEN later ELSE route_entry

\* RouteMatcher::route: the loop over routes_, from index i on
RECURSIVE RouteFrom(_, _, _, _)
RouteFrom(routes, i, md, random) ==
  IF i > Len(routes) THEN NoRoute
  ELSE LET route_entry == Matches(routes[i], md, random) IN
       IF route_entry.found THEN route_entry
       ELSE RouteFrom(routes, i + 1, md, random)

RouteMatcherRoute(routes, md, random) == RouteFrom(routes, 1, md, random)

\* ------------------------------------------------------------------------
\* Router and UpstreamRequest.  The handlers are operators on a record w of
\* the router-side state (ur, pool, conns, dpc, hist, crashed); env holds
\* the choices that are not the code's: env.crash (a null dereference kills
\* the process, or the dereferencing statement is skipped) and env.closeEvent
\* (Connection::close delivers LocalClose to the attached callbacks before
\* it returns).
\* ------------------------------------------------------------------------
\* Router::upstream_request_ == nullptr
NoUpstreamRequest ==
  [ live |-> FALSE, messageType |-> "Call",
    conn_pool_handle_ |-> FALSE, conn_data_ |-> Null, conn_state_ |-> Null,
    upstream_host_ |-> Null, upgrade_response_ |-> FALSE,
    request_complete_ |-> FALSE, response_started_ |-> FALSE,
    response_complete_ |-> FALSE, charged_response_timing_ |-> FALSE ]

\* UpstreamRequest constructor
UpstreamRequest(messageType) ==
  [NoUpstreamRequest EXCEPT !.live = TRUE, !.messageType = messageType]

\* one entry of hist: a call the Router made (e), its argument (a), a flag (f),
\* and the message type (t) and upstream host (h) of the UpstreamRequest then
Event(e, a, f, t, h) == [e |-> e, a |-> a, f |-> f, t |-> t, h |-> h]

Log(w, e, a, f) ==
  [w EXCEPT !.hist = Append(@, Event(e, a, f,
                                     IF w.ur.live THEN w.ur.messageType ELSE "none",
                                     w.ur.upstream_host_))]

\* a dereference of a pointer that may be null
Deref(w, isNull, env) ==
  IF isNull /\ env.crash
  THEN [Log(w, "crash", "null dereference", FALSE) EXCEPT !.crashed = TRUE]
  ELSE w

\* callbacks_->sendLocalReply(AppException(type, what), true)
sendLocalReply(w, type, what) ==
  IF w.crashed THEN w ELSE Log(w, "sendLocalReply", type \o ": " \o what, FALSE)

\* callbacks_->resetDownstreamConnection()
resetDownstreamConnection(w) ==
  IF w.crashed THEN w ELSE Log(w, "resetDownstreamConnection", "", FALSE)

\* outlierDetector().putResult(result) on upstream_host_
putResult(w, result, env) ==
  IF w.crashed THEN w
  ELSE LET w1 == Deref(w, w.ur.upstream_host_ = Null, env) IN
       IF w1.crashed \/ w.ur.upstream_host_ = Null THEN w1
       ELSE Log(w1, "putResult", result, FALSE)

\* Tcp::ConnectionPool::Cancellable::cancel: the pool drops the acquisition
cancel(w) ==
  Log([w EXCEPT !.pool.pending = FALSE], "cancel", "", FALSE)

\* a ConnectionData is destroyed: the connection goes back to the pool and
\* the Router is no longer its upstream callbacks
DestroyConnData(w, c) ==
  IF c = Null THEN w ELSE [w EXCEPT !.conns[c].borrowed = FALSE]

\* a chargeResponseTiming without the charged_response_timing_ guard
chargeResponseTimingUnguarded(w) ==
  IF w.crashed THEN w
  ELSE IF ~w.ur.request_complete_ THEN w
  ELSE Log([w EXCEPT !.ur.charged_response_timing_ = TRUE],
           "recordHistogram", "upstream_rq_time", FALSE)

\* Router::UpstreamRequest::chargeResponseTiming
chargeResponseTiming(w) ==
  IF w.crashed THEN w
  ELSE IF w.ur.charged_response_timing_ \/ ~w.ur.request_complete_ THEN w
  ELSE Log([w EXCEPT !.ur.charged_response_timing_ = TRUE],
           "recordHistogram", "upstream_rq_time", FALSE)

\* Router::UpstreamRequest::onRequestComplete
onRequestComplete(w) ==
  IF w.crashed THEN w
  ELSE Log([w EXCEPT !.ur.request_complete_ = TRUE], "onRequestComplete", "", FALSE)

\* Router::UpstreamRequest::onResponseComplete
onResponseComplete(w) ==
  IF w.crashed THEN w
  ELSE LET w1 == chargeResponseTiming(w) IN
       DestroyConnData(Log([w1 EXCEPT !.ur.response_complete_ = TRUE,
                                      !.ur.conn_state_ = Null,
                                      !.ur.conn_data_ = Null],
                           "onResponseComplete", "", FALSE),
                       w1.ur.conn_data_)

\* Router::UpstreamRequest::onUpstreamHostSelected
onUpstreamHostSelected(w, host) ==
  IF w.crashed THEN w ELSE [w EXCEPT !.ur.upstream_host_ = host]

\* a reply that never names the host
HostTextUnknown(host) == "to upstream"

\* the address the connection-failure reply cites
HostText(host) == IF host # Null THEN host ELSE "to upstream"

\* an onResetStream that treats a local connection failure like a remote one
onResetStreamLocalReplies(w, reason, env) ==
  IF w.crashed THEN w
  ELSE LET w0 == Log(w, "onResetStream", reason, w.ur.response_started_) IN
  IF w.ur.messageType = "Oneway" THEN resetDownstreamConnection(w0)
  ELSE LET w1 == chargeResponseTiming(w0) IN
  CASE reason = "Overflow" ->
         sendLocalReply(w1, "InternalError", "too many connections")
    [] OTHER ->
         LET w2 == putResult(w1, IF reason = "Timeout" THEN "LocalOriginTimeout"
                                 ELSE "LocalOriginConnectFailed", env) IN
         IF ~w2.ur.response_started_
         THEN sendLocalReply(w2, "InternalError",
                             "connection failure " \o HostText(w2.ur.upstream_host_))
         ELSE resetDownstreamConnection(w2)

\* Router::UpstreamRequest::onResetStream
onResetStream(w, reason, env) ==
  IF w.crashed THEN w
  ELSE LET w0 == Log(w, "onResetStream", reason, w.ur.response_started_) IN
  IF w.ur.messageType = "Oneway" THEN resetDownstreamConnection(w0)
  ELSE LET w1 == chargeResponseTiming(w0) IN
  CASE reason = "Overflow" ->
         sendLocalReply(w1, "InternalError", "too many connections")
    [] reason = "LocalConnectionFailure" ->
         resetDownstreamConnection(putResult(w1, "LocalOriginConnectFailed", env))
    [] OTHER ->
         LET w2 == putResult(w1, IF reason = "Timeout" THEN "LocalOriginTimeout"
                                 ELSE "LocalOriginConnectFailed", env) IN
         IF ~w2.ur.response_started_
         THEN sendLocalReply(w2, "InternalError",
                             "connection failure " \o HostText(w2.ur.upstream_host_))
         ELSE resetDownstreamConnection(w2)

\* Router::UpstreamRequest::releaseConnection, and Router::onEvent, which
\* Connection::close re-enters while the moved-out conn_data is still alive
RECURSIVE releaseConnection(_, _, _)

\* an onEvent that releases the connection and tells nobody
RouterOnEventNoReset(w, event, env) ==
  IF w.crashed THEN w ELSE releaseConnection(w, FALSE, env)

RouterOnEvent(w, event, env) ==
  IF w.crashed THEN w
  ELSE LET w1 == Deref(w, ~w.ur.live, env) IN
       IF w1.crashed \/ ~w.ur.live THEN w1
       ELSE releaseConnection(
              onResetStream(w1, IF event = "RemoteClose" THEN "RemoteConnectionFailure"
                                ELSE "LocalConnectionFailure", env),
              FALSE, env)

\* a releaseConnection that forgets the pending handle without cancelling it
releaseConnectionNoCancel(w, close, env) ==
  IF w.crashed THEN w
  ELSE LET conn_data == w.ur.conn_data_
           w2 == [w EXCEPT !.ur.conn_pool_handle_ = FALSE,
                           !.ur.conn_state_ = Null, !.ur.conn_data_ = Null]
           w3 == IF close /\ conn_data # Null
                 THEN LET w4 == Log([w2 EXCEPT !.conns[conn_data].open = FALSE],
                                    "close", conn_data, FALSE) IN
                      IF env.closeEvent THEN RouterOnEvent(w4, "LocalClose", env)
                      ELSE w4
                 ELSE w2
       IN DestroyConnData(w3, conn_data)

releaseConnection(w, close, env) ==
  IF w.crashed THEN w
  ELSE LET w1 == IF w.ur.conn_pool_handle_
                 THEN [cancel(w) EXCEPT !.ur.conn_pool_handle_ = FALSE]
                 ELSE w
           conn_data == w1.ur.conn_data_
           w2 == [w1 EXCEPT !.ur.conn_state_ = Null, !.ur.conn_data_ = Null]
           w3 == IF close /\ conn_data # Null
                 THEN LET w4 == Log([w2 EXCEPT !.conns[conn_data].open = FALSE],
                                    "close", conn_data, FALSE) IN
                      IF env.closeEvent THEN RouterOnEvent(w4, "LocalClose", env)
                      ELSE w4
                 ELSE w2
       IN DestroyConnData(w3, conn_data)

\* a resetStream that releases without closing
resetStreamNoClose(w, env) == releaseConnection(w, FALSE, env)

\* Router::UpstreamRequest::resetStream
resetStream(w, env) == releaseConnection(w, TRUE, env)

\* Router::UpstreamRequest::~UpstreamRequest, with the members' destructors
DestroyUpstreamRequest(w) ==
  IF ~w.ur.live THEN w
  ELSE LET w1 == IF w.ur.conn_pool_handle_ THEN cancel(w) ELSE w IN
       [DestroyConnData(w1, w1.ur.conn_data_) EXCEPT !.ur = NoUpstreamRequest]

\* a cleanup that keeps the UpstreamRequest
cleanupKeeps(w) == w

\* Router::cleanup
cleanup(w) == IF w.crashed THEN w ELSE DestroyUpstreamRequest(w)

\* ThriftConnectionState::nextSequenceId: the id it hands out and the
\* counter it leaves
nextSequenceId(cs) ==
  [id |-> cs.next_sequence_id_, next_sequence_id_ |-> cs.next_sequence_id_ + 1]

\* metadata_->setSequenceId(conn_state_->nextSequenceId()); issued keeps the
\* ids the connection has handed out
setSequenceId(w, c) ==
  LET n == nextSequenceId(w.conns[c]) IN
  Log([w EXCEPT !.conns[c].next_sequence_id_ = n.next_sequence_id_,
                !.conns[c].issued = Append(@, n.id)],
      "setSequenceId", c, FALSE)

\* a connection state made anew for every request
connectionStateAlwaysNew(w, conn) ==
  [w EXCEPT !.conns[conn].state = TRUE,
            !.conns[conn].next_sequence_id_ = 0,
            !.conns[conn].created = IF w.conns[conn].state THEN @ ELSE @ + 1]

\* onPoolReady's conn_state_: the ThriftConnectionState attached to the
\* connection, made and attached now when there is none
connectionStateTyped(w, conn) ==
  IF w.conns[conn].state THEN w
  ELSE [w EXCEPT !.conns[conn].state = TRUE,
                 !.conns[conn].next_sequence_id_ = 0,
                 !.conns[conn].created = @ + 1]

\* callbacks_->continueDecoding(): the suspended decoder goes on
continueDecoding(w) ==
  Log([w EXCEPT !.dpc = IF @ = "stopped" THEN "body" ELSE @],
      "continueDecoding", "", FALSE)

\* an onRequestStart that resumes the decoder whatever it is told
onRequestStartResumes(w, continue_decoding, env) ==
  IF w.crashed THEN w
  ELSE LET w1 == Deref(w, w.ur.conn_state_ = Null, env) IN
       IF w1.crashed THEN w1
       ELSE LET c  == w1.ur.conn_state_
                w2 == IF c = Null THEN w1 ELSE setSequenceId(w1, c)
            IN continueDecoding(w2)

\* Router::UpstreamRequest::onRequestStart
onRequestStart(w, continue_decoding, env) ==
  IF w.crashed THEN w
  ELSE LET w1 == Deref(w, w.ur.conn_state_ = Null, env) IN
       IF w1.crashed THEN w1
       ELSE LET c  == w1.ur.conn_state_
                w2 == IF c = Null THEN w1 ELSE setSequenceId(w1, c)
            IN IF continue_decoding THEN continueDecoding(w2) ELSE w2

\* an onPoolFailure that records the host and reports nothing
onPoolFailureNoReset(w, reason, host, env) ==
  IF w.crashed THEN w
  ELSE onUpstreamHostSelected([w EXCEPT !.ur.conn_pool_handle_ = FALSE], host)

\* Router::UpstreamRequest::onPoolFailure
onPoolFailure(w, reason, host, env) ==
  IF w.crashed THEN w
  ELSE onResetStream(
         onUpstreamHostSelected([w EXCEPT !.ur.conn_pool_handle_ = FALSE], host),
         reason, env)

\* an onPoolReady that starts the request while the upgrade response is
\* still to come
onPoolReadyStartsAtOnce(w, conn, host, upgrade, env) ==
  IF w.crashed THEN w
  ELSE LET continue_decoding == w.ur.conn_pool_handle_
           w1 == putResult(onUpstreamHostSelected(w, host), "LocalOriginConnectSuccess", env)
           w2 == [connectionStateTyped(w1, conn) EXCEPT
                    !.ur.conn_data_ = conn,
                    !.conns[conn].borrowed = TRUE,
                    !.ur.conn_pool_handle_ = FALSE,
                    !.ur.conn_state_ = conn]
           w3 == IF upgrade
                 THEN Log([w2 EXCEPT !.ur.upgrade_response_ = TRUE], "write", "upgrade", FALSE)
                 ELSE w2
       IN onRequestStart(w3, continue_decoding, env)

\* an onPoolReady that leaves conn_pool_handle_ as it was
onPoolReadyKeepsHandle(w, conn, host, upgrade, env) ==
  IF w.crashed THEN w
  ELSE LET continue_decoding == w.ur.conn_pool_handle_
           w1 == putResult(onUpstreamHostSelected(w, host), "LocalOriginConnectSuccess", env)
           w2 == [connectionStateTyped(w1, conn) EXCEPT
                    !.ur.conn_data_ = conn,
                    !.conns[conn].borrowed = TRUE,
                    !.ur.conn_state_ = conn]
       IN IF upgrade
          THEN Log([w2 EXCEPT !.ur.upgrade_response_ = TRUE], "write", "upgrade", FALSE)
          ELSE onRequestStart(w2, continue_decoding, env)

\* Router::UpstreamRequest::onPoolReady; upgrade: the protocol supports an
\* upgrade and attemptUpgrade returned an upgrade response to wait for
onPoolReady(w, conn, host, upgrade, env) ==
  IF w.crashed THEN w
  ELSE LET continue_decoding == w.ur.conn_pool_handle_
           w1 == putResult(onUpstreamHostSelected(w, host), "LocalOriginConnectSuccess", env)
           w2 == [connectionStateTyped(w1, conn) EXCEPT
                    !.ur.conn_data_ = conn,
                    !.conns[conn].borrowed = TRUE,
                    !.ur.conn_pool_handle_ = FALSE,
                    !.ur.conn_state_ = conn]
       IN IF upgrade
          THEN Log([w2 EXCEPT !.ur.upgrade_response_ = TRUE], "write", "upgrade", FALSE)
          ELSE onRequestStart(w2, continue_decoding, env)

\* Router::UpstreamRequest::start; acquire is what conn_pool_data_.newConnection
\* does before it returns: hands back a pending handle, or calls onPoolReady or
\* onPoolFailure at once
start(w, acquire, env) ==
  LET w0 == Log(w, "newConnection", acquire.how, FALSE)
      w1 == CASE acquire.how = "pending" ->
                   [w0 EXCEPT !.pool.pending = TRUE, !.ur.conn_pool_handle_ = TRUE]
              [] acquire.how = "ready" ->
                   onPoolReady(w0, acquire.conn, acquire.host, acquire.upgrade, env)
              [] OTHER ->
                   onPoolFailure(w0, acquire.reason, acquire.host, env)
      status == IF w1.ur.conn_pool_handle_ THEN "StopIteration"
                ELSE IF w1.ur.upgrade_response_ THEN "StopIteration"
                ELSE IF w1.ur.upstream_host_ = Null THEN "StopIteration"
                ELSE "Continue"
  IN IF w1.crashed THEN w1
     ELSE [Log(w1, "start", status, FALSE) EXCEPT
             !.dpc = IF status = "Continue" THEN "body" ELSE "stopped"]

\* Router::messageBegin from the UpstreamRequest's construction on: the new
\* UpstreamRequest replaces (and so destroys) the one the Router still held
startUpstreamRequest(w, messageType, acquire, env) ==
  LET w1 == DestroyUpstreamRequest(w)
      w2 == Log([w1 EXCEPT !.ur = UpstreamRequest(messageType)],
                "UpstreamRequest", messageType, FALSE)
  IN start(w2, acquire, env)

\* a cluster resolution that replies for a cluster in maintenance mode or
\* without a healthy pool and goes on to the upstream all the same
resolveClusterGoesOn(w, messageType, resolve, acquire, env) ==
  LET c == Log(w, "getThreadLocalCluster", "", resolve # "unknown cluster") IN
  IF resolve = "unknown cluster"
  THEN [sendLocalReply(c, "InternalError", "unknown cluster") EXCEPT !.dpc = "stopped"]
  ELSE
  LET m == Log(c, "maintenanceMode", "", resolve = "maintenance mode")
      r == IF resolve = "maintenance mode"
           THEN sendLocalReply(m, "InternalError", "maintenance mode")
           ELSE m
      p == Log(r, "tcpConnPool", "", resolve # "no healthy upstream")
      q == IF resolve = "no healthy upstream"
           THEN sendLocalReply(p, "InternalError", "no healthy upstream")
           ELSE p
  IN startUpstreamRequest(q, messageType, acquire, env)

\* Router::messageBegin once a route was found: the cluster lookup, the
\* maintenance-mode test and the connection pool lookup
resolveCluster(w, messageType, resolve, acquire, env) ==
  LET c == Log(w, "getThreadLocalCluster", "", resolve # "unknown cluster") IN
  IF resolve = "unknown cluster"
  THEN [sendLocalReply(c, "InternalError", "unknown cluster") EXCEPT !.dpc = "stopped"]
  ELSE
  LET m == Log(c, "maintenanceMode", "", resolve = "maintenance mode") IN
  IF resolve = "maintenance mode"
  THEN [sendLocalReply(m, "InternalError", "maintenance mode") EXCEPT !.dpc = "stopped"]
  ELSE
  LET p == Log(m, "tcpConnPool", "", resolve # "no healthy upstream") IN
  IF resolve = "no healthy upstream"
  THEN [sendLocalReply(p, "InternalError", "no healthy upstream") EXCEPT !.dpc = "stopped"]
  ELSE startUpstreamRequest(p, messageType, acquire, env)

\* a messageBegin that replies for an unroutable call and resolves a cluster
\* all the same
messageBeginRoutesAnyway(w, messageType, resolve, acquire, env) ==
  LET r == Log(w, "route", "", resolve # "no route") IN
  IF resolve = "no route"
  THEN resolveCluster(sendLocalReply(r, "UnknownMethod", "no route"),
                      messageType, "unknown cluster", acquire, env)
  ELSE resolveCluster(r, messageType, resolve, acquire, env)

\* Router::messageBegin; resolve says how far route, cluster and pool lookup get
messageBegin(w, messageType, resolve, acquire, env) ==
  LET r == Log(w, "route", "", resolve # "no route") IN
  IF resolve = "no route"
  THEN [sendLocalReply(r, "UnknownMethod", "no route") EXCEPT !.dpc = "stopped"]
  ELSE resolveCluster(r, messageType, resolve, acquire, env)

\* Router::messageEnd
messageEnd(w, env) ==
  LET w1 == Deref(w, ~w.ur.live, env) IN
  IF w1.crashed THEN w1
  ELSE IF ~w.ur.live THEN [w1 EXCEPT !.dpc = "ended"]
  ELSE LET w2 == Deref(w1, w1.ur.conn_data_ = Null, env) IN
       IF w2.crashed THEN w2
       ELSE LET w3 == IF w2.ur.conn_data_ = Null THEN w2
                      ELSE Log(w2, "write", "request", FALSE)
            IN [onRequestComplete(w3) EXCEPT !.dpc = "ended"]

\* a transportEnd that completes a one-way call and keeps its UpstreamRequest
transportEndNoCleanup(w, env) ==
  LET w1 == Deref(w, ~w.ur.live, env) IN
  IF w1.crashed THEN w1
  ELSE IF w.ur.live /\ w.ur.messageType = "Oneway"
  THEN [onResponseComplete(w1) EXCEPT !.dpc = "idle"]
  ELSE [w1 EXCEPT !.dpc = "idle"]

\* Router::transportEnd
transportEnd(w, env) ==
  LET w1 == Deref(w, ~w.ur.live, env) IN
  IF w1.crashed THEN w1
  ELSE IF w.ur.live /\ w.ur.messageType = "Oneway"
  THEN [cleanup(onResponseComplete(w1)) EXCEPT !.dpc = "idle"]
  ELSE [w1 EXCEPT !.dpc = "idle"]

\* the outlier result a complete response reports: a successful Reply, a
\* failed Reply or an Exception; any other message type reports nothing
putResponseResult(w, response, env) ==
  CASE response = "ReplySuccess" -> putResult(w, "ExtOriginRequestSuccess", env)
    [] response \in {"ReplyError", "Exception"} -> putResult(w, "ExtOriginRequestFailed", env)
    [] OTHER -> w

\* Router::onUpstreamData. upgradeDone: upgrade_response_->onData(data);
\* status: what callbacks_->upstreamData(data) returns; response: the message
\* type and success of the response that completed
onUpstreamData(w, end_stream, upgradeDone, status, response, env) ==
  LET w0 == Deref(w, ~w.ur.live, env) IN
  IF w0.crashed \/ ~w.ur.live THEN w0
  ELSE
  LET underflow(x) ==
        IF end_stream
        THEN cleanup(onResetStream(onResponseComplete(x), "RemoteConnectionFailure", env))
        ELSE x
  IN
  IF w0.ur.upgrade_response_
  THEN IF ~upgradeDone THEN w0
       ELSE LET u == Deref(w0, w0.ur.conn_state_ = Null, env) IN
            IF u.crashed THEN u
            ELSE underflow(onRequestStart(
                   [Log(u, "completeUpgrade", "", FALSE) EXCEPT !.ur.upgrade_response_ = FALSE],
                   TRUE, env))
  ELSE LET w1 == IF ~w0.ur.response_started_
                 THEN Log([w0 EXCEPT !.ur.response_started_ = TRUE],
                          "startUpstreamResponse", "", FALSE)
                 ELSE w0
           w2 == Log(w1, "upstreamData", status, FALSE)
       IN CASE status = "Complete" ->
                 cleanup(onResponseComplete(putResponseResult(w2, response, env)))
            [] status = "Reset" ->
                 resetStream(putResult(w2, "ExtOriginRequestFailed", env), env)
            [] OTHER -> underflow(w2)

\* Router::onDestroy
onDestroy(w, env) ==
  IF w.ur.live THEN cleanup(resetStream(w, env)) ELSE w

\* ------------------------------------------------------------------------
\* The state machine
\* ------------------------------------------------------------------------
\* the router-side state as one record, and its assignment to the variables
World ==
  [ ur |-> upstream_request_, pool |-> pool, conns |-> conns, dpc |-> dpc,
    hist |-> hist, crashed |-> crashed ]

Becomes(w) ==
  /\ upstream_request_' = w.ur
  /\ pool' = w.pool
  /\ conns' = w.conns
  /\ dpc' = w.dpc
  /\ hist' = w.hist
  /\ crashed' = w.crashed

Envs == [crash : BOOLEAN, closeEvent : BOOLEAN]

\* a connection as the pool creates it
FreshConn ==
  [ state |-> FALSE, next_sequence_id_ |-> 0, borrowed |-> FALSE, open |-> TRUE,
    created |-> 0, issued |-> <<>> ]

\* the pool hands out connection c: an idle open one, or a new one in the
\* place of one that was closed
PoolConnect(w, c) ==
  IF w.conns[c].open THEN w ELSE [w EXCEPT !.conns[c] = FreshConn]

\* what newConnection can do before it returns
Acquires ==
  {[how |-> "pending", conn |-> Null, host |-> Null, upgrade |-> FALSE, reason |-> ""]}
  \cup {[how |-> "ready", conn |-> c, host |-> h, upgrade |-> u, reason |-> ""] :
          c \in {x \in Conns : ~conns[x].borrowed}, h \in Hosts, u \in BOOLEAN}
  \cup {[how |-> "failure", conn |-> Null, host |-> h, upgrade |-> FALSE, reason |-> r] :
          h \in Hosts \cup {Null}, r \in Reasons}

\* the responses upstreamData can complete
Responses == {"ReplySuccess", "ReplyError", "Exception", "Invalid"}

Resolves == {"no route", "unknown cluster", "maintenance mode", "no healthy upstream", "start"}

\* the events of hist with name e
Count(e) == Cardinality({i \in 1..Len(hist) : hist[i].e = e})

\* the handlers that ran in the current call
Ops(name) == Cardinality({i \in 1..Len(hist) : hist[i].e = "op" /\ hist[i].a = name})

\* the downstream was answered or reset in the current call: its decoder
\* gives the call up and may begin the next one
CallFailed == Count("sendLocalReply") + Count("resetDownstreamConnection") > 0

\* the downstream session is alive: its decoder may call the Router
Running == ~crashed /\ dpc # "destroyed"

\* no call is in flight: none was begun, the last one left no UpstreamRequest
\* behind, or it failed
CallOver == (dpc = "idle" /\ ~upstream_request_.live) \/ CallFailed

MessageBegin ==
  /\ Running
  /\ ncalls < MaxCalls
  /\ CallOver
  /\ \E messageType \in {"Call", "Oneway"}, resolve \in Resolves :
       \E acquire \in IF resolve = "start" THEN Acquires ELSE {CHOOSE a \in Acquires : TRUE},
          env \in IF resolve = "start" THEN Envs ELSE {CHOOSE e \in Envs : TRUE} :
         LET w0 == Log([World EXCEPT !.hist = <<>>], "op", "messageBegin", FALSE)
             w1 == IF resolve = "start" /\ acquire.how = "ready"
                   THEN PoolConnect(w0, acquire.conn) ELSE w0
         IN Becomes(messageBegin(w1, messageType, resolve, acquire, env))
  /\ ncalls' = ncalls + 1
  /\ UNCHANGED matcherVars

MessageEnd ==
  /\ Running
  /\ dpc = "body"
  /\ \E env \in Envs :
       Becomes(messageEnd(Log(World, "op", "messageEnd", FALSE), env))
  /\ UNCHANGED <<ncalls, matcherVars>>

TransportEnd ==
  /\ Running
  /\ dpc = "ended"
  /\ \E env \in Envs :
       Becomes(transportEnd(Log(World, "op", "transportEnd", FALSE), env))
  /\ UNCHANGED <<ncalls, matcherVars>>

\* the pool delivers the connection it owed
OnPoolReady ==
  /\ ~crashed
  /\ pool.pending
  /\ \E c \in {x \in Conns : ~conns[x].borrowed}, h \in Hosts, u \in BOOLEAN, env \in Envs :
       LET w0 == Log([World EXCEPT !.pool.pending = FALSE], "op", "onPoolReady", FALSE)
           w1 == Deref(PoolConnect(w0, c), ~w0.ur.live, env)
       IN Becomes(IF w1.crashed \/ ~w0.ur.live THEN w1 ELSE onPoolReady(w1, c, h, u, env))
  /\ UNCHANGED <<ncalls, matcherVars>>

\* the pool gives the acquisition up
OnPoolFailure ==
  /\ ~crashed
  /\ pool.pending
  /\ \E r \in Reasons, h \in Hosts \cup {Null}, env \in Envs :
       LET w0 == Log([World EXCEPT !.pool.pending = FALSE], "op", "onPoolFailure", FALSE)
           w1 == Deref(w0, ~w0.ur.live, env)
       IN Becomes(IF w1.crashed \/ ~w0.ur.live THEN w1 ELSE onPoolFailure(w1, r, h, env))
  /\ UNCHANGED <<ncalls, matcherVars>>

\* bytes arrive on the borrowed connection
OnUpstreamData ==
  /\ ~crashed
  /\ Ops("onUpstreamData") < MaxData
  /\ \E c \in Conns :
       /\ conns[c].borrowed /\ conns[c].open
       /\ \E end_stream \in BOOLEAN, upgradeDone \in BOOLEAN,
             status \in {"Complete", "Incomplete", "Reset"}, env \in Envs :
            \E response \in IF status = "Complete" THEN Responses ELSE {"Invalid"} :
              Becomes(onUpstreamData(Log(World, "op", "onUpstreamData", end_stream),
                                     end_stream, upgradeDone, status, response, env))
  /\ UNCHANGED <<ncalls, matcherVars>>

\* the borrowed connection is closed, by the peer or locally
OnEvent ==
  /\ ~crashed
  /\ \E c \in Conns :
       /\ conns[c].borrowed /\ conns[c].open
       /\ \E event \in {"RemoteClose", "LocalClose"}, env \in Envs :
            Becomes(RouterOnEvent(Log([World EXCEPT !.conns[c].open = FALSE],
                                      "op", "onEvent", event = "RemoteClose"),
                                  event, env))
  /\ UNCHANGED <<ncalls, matcherVars>>

\* the session is torn down
OnDestroy ==
  /\ Running
  /\ \E env \in Envs :
       Becomes([onDestroy(Log(World, "op", "onDestroy", FALSE), env) EXCEPT !.dpc = "destroyed"])
  /\ UNCHANGED <<ncalls, matcherVars>>

NoMetadata ==
  [hasMethodName |-> FALSE, methodName |-> <<>>, headers |-> [h \in HeaderNames |-> <<>>]]

RouterInit ==
  /\ upstream_request_ = NoUpstreamRequest
  /\ pool = [pending |-> FALSE]
  /\ conns = [c \in Conns |-> FreshConn]
  /\ dpc = "idle"
  /\ hist = <<>>
  /\ crashed = FALSE
  /\ ncalls = 0

Init ==
  /\ route_config = <<>>
  /\ routes_ = <<>>
  /\ metadata = NoMetadata
  /\ random_value = 0
  /\ route_result = NotRouted
  /\ RouterInit

Next ==
  \/ MessageBegin
  \/ MessageEnd
  \/ TransportEnd
  \/ OnPoolReady
  \/ OnPoolFailure
  \/ OnUpstreamData
  \/ OnEvent
  \/ OnDestroy

Spec == Init /\ [][Next]_vars

\* ------------------------------------------------------------------------
\* The route matcher on its own: a matcher built from a bounded rule list,
\* then RouteMatcher::route on bounded calls
\* ------------------------------------------------------------------------
ClusterSpecifiers ==
  {[cluster |-> c, cluster_header |-> "", weighted_clusters |-> <<>>] : c \in Clusters}
  \cup {[cluster |-> "", cluster_header |-> ClusterHeaderName, weighted_clusters |-> <<>>]}

RouteConfigs ==
  {[kind |-> k, name |-> n, invert |-> i, headers |-> hs, cluster |-> cs.cluster,
    cluster_header |-> cs.cluster_header, weighted_clusters |-> cs.weighted_clusters] :
     k \in {"method", "service"}, n \in {<<"a">>}, i \in BOOLEAN,
     hs \in {{}}, cs \in ClusterSpecifiers}

Metadatas ==
  {[hasMethodName |-> hm, methodName |-> IF hm THEN m ELSE <<>>,
    headers |-> [h \in HeaderNames |-> IF h = ClusterHeaderName THEN ch ELSE kh]] :
     hm \in BOOLEAN, m \in Strs(MaxMethodLen),
     ch \in {<<>>, <<"C2", "C1">>}, kh \in {<<>>}}

RouteInit ==
  /\ \E n \in 0..MaxRules : \E config \in [1..n -> RouteConfigs] :
       /\ RouteMatcher(config).ok
       /\ route_config = config
       /\ routes_ = RouteMatcher(config).routes_
  /\ metadata = NoMetadata
  /\ random_value = 0
  /\ route_result = NotRouted
  /\ RouterInit

Route ==
  /\ \E md \in Metadatas :
       /\ metadata' = md
       /\ random_value' = 0
       /\ route_result' = RouteMatcherRoute(routes_, md, 0)
  /\ UNCHANGED <<route_config, routes_, routerVars>>

RouteNext == Route

RouteSpec == RouteInit /\ [][RouteNext]_vars

\* ------------------------------------------------------------------------
\* Reading hist
\* ------------------------------------------------------------------------
IsOp(i) == hist[i].e = "op"

\* the handler that logged entry i: its first and last entry
OpStart(i) == CHOOSE k \in 1..i : IsOp(k) /\ \A m \in (k + 1)..i : ~IsOp(m)

OpEnd(i) ==
  CHOOSE k \in i..Len(hist) :
    /\ \A m \in (i + 1)..k : ~IsOp(m)
    /\ k = Len(hist) \/ IsOp(k + 1)

Handler(i) == hist[OpStart(i)].a

\* the entries a handler logged
InHandler(i) == OpStart(i)..OpEnd(i)

\* entry i is onResetStream(reason) entered
IsReset(i) == hist[i].e = "onResetStream"

\* what one onResetStream did: the entries up to the next onResetStream or handler
ResetEnd(i) ==
  CHOOSE k \in i..Len(hist) :
    /\ \A m \in (i + 1)..k : ~IsOp(m) /\ ~IsReset(m)
    /\ k = Len(hist) \/ IsOp(k + 1) \/ IsReset(k + 1)

Replied(i) == \E j \in i..ResetEnd(i) : hist[j].e = "sendLocalReply"

ResetDownstream(i) == \E j \in i..ResetEnd(i) : hist[j].e = "resetDownstreamConnection"

\* the last handler that ran
LastOp == IF hist = <<>> THEN "none" ELSE Handler(Len(hist))

\* the last handler logged e
LastDid(e) == hist # <<>> /\ \E j \in InHandler(Len(hist)) : hist[j].e = e

Borrowed == {c \in Conns : conns[c].borrowed}

\* ------------------------------------------------------------------------
\* C1: RouteMatcher::route returns what the first rule that yields a route
\* returns, so of two rules that both yield one the earlier is chosen; when
\* no rule yields a route the result is no route.
\* ------------------------------------------------------------------------
Yields(i) == Matches(routes_[i], metadata, random_value)

C1_FirstMatchWins ==
  route_result # NotRouted =>
    /\ \A i \in 1..Len(routes_) :
         (Yields(i).found /\ \A k \in 1..(i - 1) : ~Yields(k).found)
           => route_result = Yields(i)
    /\ (\A i \in 1..Len(routes_) : ~Yields(i).found) => route_result = NoRoute

\* two rules yield different routes for the call, and the earlier one is returned
C1_Witness ==
  /\ route_result # NotRouted
  /\ Len(routes_) = 2
  /\ Yields(1).found /\ Yields(2).found /\ Yields(1) # Yields(2)
  /\ route_result = Yields(1)

\* ------------------------------------------------------------------------
\* C2 as claimed: for a non-one-way call every connection failure sends a
\* local reply (and no downstream reset) when no response byte was received,
\* and resets the downstream (and sends no reply) when the response started.
\* ------------------------------------------------------------------------
C2_Original ==
  \A i \in 1..Len(hist) :
    (IsReset(i) /\ hist[i].t # "Oneway" /\ hist[i].h # Null) =>
      IF ~hist[i].f THEN Replied(i) /\ ~ResetDownstream(i)
      ELSE ResetDownstream(i) /\ ~Replied(i)

\* the null upstream host killed the process inside onResetStream entered at i
Crashed(i) == \E j \in i..ResetEnd(i) : hist[j].e = "crash"

\* C2 amended: the rule holds for remote connection failure and timeout; an
\* overflow always sends the local reply; a local connection failure always
\* resets the downstream and never sends a reply, response started or not.
\* When no upstream host is recorded and the reason is not Overflow, the
\* process may die on the null host before it does either.
C2_FailureTranslation ==
  \A i \in 1..Len(hist) :
    (IsReset(i) /\ hist[i].t # "Oneway") =>
      CASE hist[i].a = "Overflow" -> Replied(i) /\ ~ResetDownstream(i) /\ ~Crashed(i)
        [] Crashed(i) -> hist[i].h = Null /\ ~Replied(i) /\ ~ResetDownstream(i)
        [] hist[i].a = "LocalConnectionFailure" -> ResetDownstream(i) /\ ~Replied(i)
        [] OTHER -> IF ~hist[i].f THEN Replied(i) /\ ~ResetDownstream(i)
                    ELSE ResetDownstream(i) /\ ~Replied(i)

\* a local close before any response byte reset the downstream
C2_Witness ==
  \E i \in 1..Len(hist) :
    /\ IsReset(i) /\ hist[i].t = "Call" /\ hist[i].h # Null
    /\ hist[i].a = "LocalConnectionFailure" /\ ~hist[i].f
    /\ ResetDownstream(i) /\ ~Replied(i)

\* ------------------------------------------------------------------------
\* C3 (scenario D): a Call whose connection was acquired and which the remote
\* closes before any response byte gets exactly one internal-error reply
\* citing the upstream host; the response decode is never started and the
\* downstream connection is not reset.
\* ------------------------------------------------------------------------
\* entry i: Router::onEvent(RemoteClose) is entered for a Call
RemoteClose(i) ==
  IsOp(i) /\ hist[i].a = "onEvent" /\ hist[i].f /\ hist[i].t = "Call"

\* a response byte was relayed downstream before entry i
StartedBefore(i) == \E j \in 1..(i - 1) : hist[j].e = "upstreamData"

Replies == {j \in 1..Len(hist) : hist[j].e = "sendLocalReply"}

C3_ScenarioD ==
  \A i \in 1..Len(hist) :
    (RemoteClose(i) /\ ~StartedBefore(i)) =>
      /\ Cardinality(Replies) = 1
      /\ \A j \in Replies :
           /\ j \in InHandler(i)
           /\ hist[i].h \in Hosts
           /\ hist[j].a = "InternalError: connection failure " \o hist[i].h
      /\ Count("startUpstreamResponse") = 0
      /\ Count("upstreamData") = 0
      /\ Count("resetDownstreamConnection") = 0

\* scenario D happened, and the session went on to tear down
C3_Witness ==
  /\ \E i \in 1..Len(hist) : RemoteClose(i) /\ ~StartedBefore(i)
  /\ Cardinality(Replies) = 1
  /\ dpc = "destroyed"

\* ------------------------------------------------------------------------
\* C4 (scenario E): a Call whose response has started and which the remote
\* then closes has its downstream connection reset, and no local reply is
\* ever sent for that call.
\* ------------------------------------------------------------------------
C4_ScenarioE ==
  \A i \in 1..Len(hist) :
    (RemoteClose(i) /\ StartedBefore(i)) =>
      /\ \E j \in InHandler(i) : hist[j].e = "resetDownstreamConnection"
      /\ Count("sendLocalReply") = 0

\* scenario E happened, and the session went on to tear down
C4_Witness ==
  /\ \E i \in 1..Len(hist) :
       /\ RemoteClose(i) /\ StartedBefore(i)
       /\ \E j \in InHandler(i) : hist[j].e = "resetDownstreamConnection"
  /\ dpc = "destroyed"

\* ------------------------------------------------------------------------
\* C5: for a one-way call every connection failure (pool failure of any
\* reason, remote or local close, response underflow) resets the downstream
\* connection and sends no local reply.
\* ------------------------------------------------------------------------
\* entry i starts a handler that delivers a connection failure
IsFailure(i) ==
  /\ IsOp(i)
  /\ \/ hist[i].a \in {"onPoolFailure", "onEvent"}
     \/ /\ hist[i].a = "onUpstreamData" /\ hist[i].f
        /\ \A j \in InHandler(i) :
             ~(hist[j].e = "upstreamData" /\ hist[j].a \in {"Complete", "Reset"})
        /\ \A j \in InHandler(i) : hist[j].e # "crash"
        /\ \E j \in InHandler(i) : hist[j].e \in {"upstreamData", "setSequenceId"}

OnewayEnded ==
  /\ ~crashed
  /\ LastOp = "transportEnd"
  /\ hist[OpStart(Len(hist))].t = "Oneway"
  /\ \E i \in 1..Len(hist) : hist[i].e = "UpstreamRequest" /\ hist[i].a = "Oneway"
  /\ \E i \in 1..Len(hist) :
       IsOp(i) /\ hist[i].a = "messageEnd" /\ hist[i].t = "Oneway"

\* an onResetStream before messageEnd
FailedBeforeMessageEnd ==
  \E i, j \in 1..Len(hist) :
    i < j /\ IsReset(i) /\ IsOp(j) /\ hist[j].a = "messageEnd"

OnewayComplete ==
  /\ LastDid("onResponseComplete")
  /\ ~upstream_request_.live
  /\ Borrowed = {}
  /\ Count("close") = 0
  /\ Count("sendLocalReply") = 0
  /\ Count("resetDownstreamConnection") = 0
  /\ Count("startUpstreamResponse") = 0

C6_Original == (OnewayEnded /\ ~FailedBeforeMessageEnd) => OnewayComplete

\* C6 amended: the same, for a one-way call that saw no connection failure
\* and no response bytes before transportEnd (bytes of an upgrade response
\* apart).
C6_OnewayCompletes ==
  (OnewayEnded /\ Count("onResetStream") = 0 /\ Count("upstreamData") = 0)
    => OnewayComplete

\* a one-way call that waited for its connection ended that way
C6_Witness ==
  /\ OnewayEnded /\ Count("onResetStream") = 0 /\ Count("upstreamData") = 0
  /\ Ops("onPoolReady") = 1
  /\ OnewayComplete

\* ------------------------------------------------------------------------
\* C7: when onDestroy returns, the Router holds no UpstreamRequest, the pool
\* owes it no connection and lends it none: a pending acquisition was
\* cancelled, a borrowed connection was closed and released.
\* ------------------------------------------------------------------------
C7_OnDestroyReleases ==
  [][ (dpc # "destroyed" /\ dpc' = "destroyed") =>
        /\ ~upstream_request_'.live
        /\ ~pool'.pending
        /\ \A c \in Conns : ~conns'[c].borrowed
        /\ pool.pending => hist'[Len(hist')].e = "cancel"
        /\ \A c \in Conns : conns[c].borrowed =>
             /\ ~conns'[c].open
             /\ \E j \in (Len(hist) + 1)..Len(hist') :
                  hist'[j].e = "close" /\ hist'[j].a = c
    ]_vars

\* onDestroy found a borrowed connection and closed it
C7_Witness ==
  /\ dpc = "destroyed"
  /\ LastOp = "onDestroy"
  /\ LastDid("close")
  /\ Borrowed = {}

\* ------------------------------------------------------------------------
\* C8: cancellation is final. The pool owes a connection only to a live
\* UpstreamRequest that holds the pending handle, and a connection calls the
\* Router back only while a live UpstreamRequest holds it: after a destroy, a
\* reset or a release no pool or connection callback can be delivered.
\* ------------------------------------------------------------------------
C8_CancellationFinal ==
  /\ pool.pending => upstream_request_.live /\ upstream_request_.conn_pool_handle_
  /\ \A c \in Borrowed : upstream_request_.live /\ upstream_request_.conn_data_ = c
  /\ \A i \in 1..Len(hist) :
       (IsOp(i) /\ hist[i].a \in {"onPoolReady", "onPoolFailure", "onUpstreamData", "onEvent"})
         => hist[i].t # "none"

\* a pending acquisition was cancelled
C8_Witness ==
  /\ ~pool.pending
  /\ LastDid("cancel")
  /\ ~upstream_request_.live

\* ------------------------------------------------------------------------
\* C9 as claimed: after a response completes, a one-way call ends, a response
\* underflows, the pool fails, the upstream connection closes or the decode
\* resets, the Router holds no UpstreamRequest.
\* ------------------------------------------------------------------------
LastData(status) ==
  hist # <<>> /\ \E j \in InHandler(Len(hist)) :
                   hist[j].e = "upstreamData" /\ hist[j].a = status

\* the call has just completed: response complete, one-way end, underflow
JustCompleted ==
  \/ LastOp = "onUpstreamData" /\ LastData("Complete")
  \/ LastOp = "transportEnd" /\ LastDid("onResponseComplete")
  \/ LastOp = "onUpstreamData" /\ LastDid("onResetStream") /\ ~LastData("Reset")

\* the call has just been reset: pool failure, upstream close, decode reset
JustReset ==
  \/ LastOp = "onPoolFailure"
  \/ LastOp = "messageBegin" /\ LastDid("onResetStream")
  \/ LastOp = "onEvent"
  \/ LastOp = "onUpstreamData" /\ LastData("Reset")

C10_HandleOrConnection ==
  upstream_request_.live =>
    ~(upstream_request_.conn_pool_handle_ /\ upstream_request_.conn_data_ # Null)

\* the pool delivered the connection a request had waited for
C10_Witness ==
  /\ upstream_request_.live
  /\ upstream_request_.conn_data_ # Null
  /\ Ops("onPoolReady") = 1

\* ------------------------------------------------------------------------
\* C11 as claimed: whenever onUpstreamData is entered with end_stream for a
\* live UpstreamRequest and the data neither completes nor resets the
\* response, in any request state, the handler forces response-complete,
\* synthesizes a RemoteConnectionFailure reset (for a Call a local reply if
\* no response had started, a downstream reset otherwise) and the Router
\* drops the UpstreamRequest.
\* ------------------------------------------------------------------------
\* onUpstreamData(end_stream) has just returned, the process alive, with the
\* response neither complete nor reset
Underflowed ==
  /\ LastOp = "onUpstreamData"
  /\ hist[OpStart(Len(hist))].f
  /\ hist[OpStart(Len(hist))].t # "none"
  /\ ~LastData("Complete") /\ ~LastData("Reset")
  /\ ~LastDid("crash")

\* the handler treated the underflow as a remote connection failure
UnderflowHandled ==
  /\ LastDid("onResponseComplete")
  /\ \E j \in InHandler(Len(hist)) :
       /\ IsReset(j) /\ hist[j].a = "RemoteConnectionFailure"
       /\ IF hist[j].t = "Call" /\ ~hist[j].f
          THEN Replied(j) /\ ~ResetDownstream(j)
          ELSE ResetDownstream(j) /\ ~Replied(j)
  /\ ~upstream_request_.live
  /\ Borrowed = {}

C11_Original == Underflowed => UnderflowHandled

\* the last bytes arrived while the upgrade response was still incomplete:
\* the handler returned at once, and the request still waits for the upgrade
C11_Witness ==
  /\ Underflowed
  /\ OpStart(Len(hist)) = Len(hist)
  /\ upstream_request_.live
  /\ upstream_request_.upgrade_response_
  /\ upstream_request_.conn_data_ # Null

\* ------------------------------------------------------------------------
\* C12 (scenario B): when the session yields no route for a call,
\* messageBegin sends exactly one UnknownMethod reply, returns StopIteration,
\* looks no cluster up, asks for no pooled connection and constructs no
\* UpstreamRequest.
\* ------------------------------------------------------------------------
\* entry i: messageBegin is entered, and callbacks_->route() finds what f says
RouteLookup(i, f) ==
  /\ IsOp(i) /\ hist[i].a = "messageBegin"
  /\ i < Len(hist) /\ hist[i + 1].e = "route" /\ hist[i + 1].f = f

\* the local replies a handler sent
RepliesIn(i) == {j \in InHandler(i) : hist[j].e = "sendLocalReply"}

C12_ScenarioB ==
  \A i \in 1..Len(hist) :
    RouteLookup(i, FALSE) =>
      /\ Cardinality(Replies) = 1
      /\ \A j \in Replies : j \in InHandler(i) /\ hist[j].a = "UnknownMethod: no route"
      /\ OpEnd(i) = Len(hist) => dpc = "stopped"
      /\ Count("getThreadLocalCluster") = 0
      /\ Count("tcpConnPool") = 0
      /\ Count("newConnection") = 0
      /\ Count("UpstreamRequest") = 0
      /\ ~pool.pending /\ Borrowed = {}

\* a second call found no route and was answered
C12_Witness ==
  /\ ncalls = 2
  /\ RouteLookup(1, FALSE)
  /\ Cardinality(RepliesIn(1)) = 1
  /\ dpc = "stopped"

\* ------------------------------------------------------------------------
\* C13 (scenario C): when the cluster is unknown or in maintenance mode,
\* messageBegin sends exactly one InternalError reply, returns StopIteration,
\* attempts no pool acquisition and constructs no UpstreamRequest; when no
\* healthy connection pool is available it sends an InternalError reply and
\* constructs no UpstreamRequest.
\* ------------------------------------------------------------------------
\* messageBegin, entered at i, made lookup e and got f
Looked(i, e, f) ==
  /\ IsOp(i) /\ hist[i].a = "messageBegin"
  /\ \E j \in InHandler(i) : hist[j].e = e /\ hist[j].f = f

\* the call has one local reply, sent by the handler entered at i, that reads a
OneReply(i, a) ==
  /\ Cardinality(Replies) = 1
  /\ \A j \in Replies : j \in InHandler(i) /\ hist[j].a = a

C13_ScenarioC ==
  \A i \in 1..Len(hist) :
    /\ Looked(i, "getThreadLocalCluster", FALSE) =>
         /\ OneReply(i, "InternalError: unknown cluster")
         /\ Count("maintenanceMode") = 0 /\ Count("tcpConnPool") = 0
    /\ Looked(i, "maintenanceMode", TRUE) =>
         /\ OneReply(i, "InternalError: maintenance mode")
         /\ Count("tcpConnPool") = 0
    /\ Looked(i, "tcpConnPool", FALSE) =>
         OneReply(i, "InternalError: no healthy upstream")
    /\ ( \/ Looked(i, "getThreadLocalCluster", FALSE)
         \/ Looked(i, "maintenanceMode", TRUE)
         \/ Looked(i, "tcpConnPool", FALSE) ) =>
         /\ OpEnd(i) = Len(hist) => dpc = "stopped"
         /\ Count("newConnection") = 0
         /\ Count("UpstreamRequest") = 0
         /\ ~pool.pending /\ Borrowed = {}

\* a call routed to a cluster in maintenance mode was answered
C13_Witness ==
  /\ hist # <<>>
  /\ Looked(1, "maintenanceMode", TRUE)
  /\ OneReply(1, "InternalError: maintenance mode")
  /\ dpc = "stopped"

\* ------------------------------------------------------------------------
\* Weighted routes: one wildcard rule over a weighted cluster list, every
\* list of up to MaxWeighted entries with weights 1..MaxWeight, routed with
\* every draw up to MaxDraw.
\* ------------------------------------------------------------------------
MaxWeighted == 3

MaxWeight == 3

MaxDraw == 11

\* RouteEntryImplBase::WeightedClusterEntry constructor; the k-th entry is
\* named after its place
WeightedClusterEntry(k, weight) ==
  [cluster_name_ |-> "W" \o ToString(k), cluster_weight_ |-> weight]

WeightedLists ==
  UNION {{[k \in 1..n |-> WeightedClusterEntry(k, w[k])] : w \in [1..n -> 1..MaxWeight]} :
           n \in 1..MaxWeighted}

WeightedConfigs ==
  {<<[kind |-> "method", name |-> <<>>, invert |-> FALSE, headers |-> {},
      cluster |-> "", cluster_header |-> "", weighted_clusters |-> ws]>> :
     ws \in WeightedLists}

\* a call of method "a"
CallOfA ==
  [hasMethodName |-> TRUE, methodName |-> <<"a">>, headers |-> [h \in HeaderNames |-> <<>>]]

WeightInit ==
  /\ \E config \in WeightedConfigs :
       /\ RouteMatcher(config).ok
       /\ route_config = config
       /\ routes_ = RouteMatcher(config).routes_
  /\ metadata = NoMetadata
  /\ random_value = 0
  /\ route_result = NotRouted
  /\ RouterInit

Pick ==
  /\ \E d \in 0..MaxDraw :
       /\ metadata' = CallOfA
       /\ random_value' = d
       /\ route_result' = RouteMatcherRoute(routes_, CallOfA, d)
  /\ UNCHANGED <<route_config, routes_, routerVars>>

WeightNext == Pick

WeightSpec == WeightInit /\ [][WeightNext]_vars

\* ------------------------------------------------------------------------
\* C14: for a weighted list with weights summing to W and a draw d, exactly
\* one entry is selected: the first whose cumulative weight exceeds d mod W.
\* The result is that of the draw d mod W, and the rule's total weight is
\* the sum of the configured weights.
\* ------------------------------------------------------------------------
\* the weights of the first k entries, summed
Cumulative(ws, k) ==
  LET sum[n \in 0..k] == IF n = 0 THEN 0 ELSE sum[n - 1] + ws[n].cluster_weight_
  IN sum[k]

\* the entries whose stretch of the weight line holds s
Selected(ws, s) ==
  {k \in 1..Len(ws) : Cumulative(ws, k - 1) <= s /\ s < Cumulative(ws, k)}

C14_WeightedPick ==
  (route_result # NotRouted /\ Len(routes_) = 1) =>
    LET base == routes_[1].base
        ws   == base.weighted_clusters_
        W    == Cumulative(ws, Len(ws))
    IN ws # <<>> =>
         /\ base.total_cluster_weight_ = W
         /\ Cardinality(Selected(ws, random_value % W)) = 1
         /\ \A k \in Selected(ws, random_value % W) :
              /\ route_result.found
              /\ route_result.cluster = ws[k].cluster_name_
              /\ \A m \in 1..(k - 1) : Cumulative(ws, m) <= random_value % W
         /\ route_result = RouteMatcherRoute(routes_, metadata, random_value % W)

\* a draw beyond the total weight selected an entry that is not the first
C14_Witness ==
  /\ route_result # NotRouted
  /\ Len(routes_) = 1
  /\ Len(routes_[1].base.weighted_clusters_) = 3
  /\ random_value >= routes_[1].base.total_cluster_weight_
  /\ route_result.found
  /\ route_result.cluster = "W2"

\* ------------------------------------------------------------------------
\* Cluster-header routes: lists of wildcard rules whose destination is the
\* cluster header or a fixed cluster, routed with every list of up to
\* MaxHeaderValues values of that header, the empty value included.
\* ------------------------------------------------------------------------
MaxHeaderRules == 2

MaxHeaderValues == 2

\* the values a call may carry in its cluster header
HeaderValues == Clusters \cup {""}

HeaderRuleConfigs ==
  {[kind |-> k, name |-> <<>>, invert |-> FALSE, headers |-> {},
    cluster |-> cs.cluster, cluster_header |-> cs.cluster_header,
    weighted_clusters |-> <<>>] :
     k \in {"method", "service"}, cs \in ClusterSpecifiers}

HeaderMetadatas ==
  {[hasMethodName |-> TRUE, methodName |-> <<"a">>,
    headers |-> [h \in HeaderNames |-> IF h = ClusterHeaderName THEN vs ELSE <<>>]] :
     vs \in UNION {[1..n -> HeaderValues] : n \in 0..MaxHeaderValues}}

HeaderInit ==
  /\ \E n \in 1..MaxHeaderRules : \E config \in [1..n -> HeaderRuleConfigs] :
       /\ RouteMatcher(config).ok
       /\ route_config = config
       /\ routes_ = RouteMatcher(config).routes_
  /\ metadata = NoMetadata
  /\ random_value = 0
  /\ route_result = NotRouted
  /\ RouterInit

RouteByHeader ==
  /\ \E md \in HeaderMetadatas :
       /\ metadata' = md
       /\ random_value' = 0
       /\ route_result' = RouteMatcherRoute(routes_, md, 0)
  /\ UNCHANGED <<route_config, routes_, routerVars>>

HeaderNext == RouteByHeader

HeaderSpec == HeaderInit /\ [][HeaderNext]_vars

\* ------------------------------------------------------------------------
\* C15 as claimed: a matched rule whose destination is a cluster header
\* yields no route when the header is absent from the call or its value is
\* empty, and matching goes on with the later rules; when the header is
\* present the cluster is the header's first value.
\* ------------------------------------------------------------------------
\* rule i names a header as its cluster source
ByHeader(i) ==
  /\ routes_[i].base.weighted_clusters_ = <<>>
  /\ routes_[i].base.cluster_header_ # ""

\* the values of rule i's cluster header in the call
HeaderOf(i) == metadata.headers[routes_[i].base.cluster_header_]

\* rule i yields nothing and the rule after it decides, no earlier rule
\* having yielded
GoesOn(i) ==
  /\ ~Yields(i).found
  /\ (\A k \in 1..(i - 1) : ~Yields(k).found) =>
       IF i < Len(routes_) /\ Yields(i + 1).found
       THEN route_result = Yields(i + 1)
       ELSE i = Len(routes_) => route_result = NoRoute

\* rule i yields the cluster named by the header's first value
FirstValue(i) ==
  Yields(i) = [found |-> TRUE, via |-> "dynamic", cluster |-> HeaderOf(i)[1]]

C15_Original ==
  route_result # NotRouted =>
    \A i \in 1..Len(routes_) :
      ByHeader(i) =>
        IF HeaderOf(i) = <<>> \/ HeaderOf(i)[1] = "" THEN GoesOn(i) ELSE FirstValue(i)

\* C15 amended: the rule yields no route, and matching goes on, only when the
\* header is absent; when it is present the cluster is the header's first
\* value, also when that value is empty.
C15_ClusterHeader ==
  route_result # NotRouted =>
    \A i \in 1..Len(routes_) :
      ByHeader(i) =>
        IF HeaderOf(i) = <<>> THEN GoesOn(i) ELSE FirstValue(i)

\* a header rule was skipped for a call without the header and the rule after
\* it routed the call
C15_Witness ==
  /\ route_result # NotRouted
  /\ Len(routes_) = 2
  /\ ByHeader(1) /\ HeaderOf(1) = <<>>
  /\ ~Yields(1).found
  /\ route_result.found /\ route_result.via = "static"

\* ------------------------------------------------------------------------
\* Name rules: one method-name or service-name rule with every configured
\* name up to MaxNameLen characters, inverted or not, with or without a
\* header matcher, routed with every call whose method name is up to
\* MaxCallLen characters.  A configuration the constructors reject leaves
\* no RouteMatcher: routes_ stays empty and nothing is routed.
\* ------------------------------------------------------------------------
MaxNameLen == 2

MaxCallLen == 3

\* two letters and the service delimiter
NameAlphabet == {"a", "b", ":"}

NameStrs(n) == UNION {[1..k -> NameAlphabet] : k \in 0..n}

NameConfigs ==
  {<<[kind |-> k, name |-> n, invert |-> i, headers |-> hs, cluster |-> "C1",
      cluster_header |-> "", weighted_clusters |-> <<>>]>> :
     k \in {"method", "service"}, n \in NameStrs(MaxNameLen), i \in BOOLEAN,
     hs \in {{}, {MatchHeaderName}}}

NameMetadatas ==
  {[hasMethodName |-> hm, methodName |-> IF hm THEN m ELSE <<>>,
    headers |-> [h \in HeaderNames |-> IF h = MatchHeaderName THEN kh ELSE <<>>]] :
     hm \in BOOLEAN, m \in NameStrs(MaxCallLen), kh \in {<<>>, <<"v">>}}

NameInit ==
  /\ \E config \in NameConfigs :
       /\ route_config = config
       /\ routes_ = IF RouteMatcher(config).ok THEN RouteMatcher(config).routes_ ELSE <<>>
  /\ metadata = NoMetadata
  /\ random_value = 0
  /\ route_result = NotRouted
  /\ RouterInit

RouteByName ==
  /\ routes_ # <<>>
  /\ \E md \in NameMetadatas :
       /\ metadata' = md
       /\ random_value' = 0
       /\ route_result' = RouteMatcherRoute(routes_, md, 0)
  /\ UNCHANGED <<route_config, routes_, routerVars>>

NameNext == RouteByName

NameSpec == NameInit /\ [][NameNext]_vars

\* a call was routed through the one rule, of the given kind, whose header
\* matchers the call satisfies
RoutedBy(kind) ==
  /\ route_result # NotRouted
  /\ Len(route_config) = 1
  /\ route_config[1].kind = kind
  /\ \A h \in route_config[1].headers : metadata.headers[h] # <<>>

\* p is the beginning of m
IsPrefix(p, m) == Len(p) <= Len(m) /\ \A k \in 1..Len(p) : m[k] = p[k]

\* ------------------------------------------------------------------------
\* C16: a service-name rule keeps its configured name with a ':' added to it
\* unless the name is empty or ends in ':' already, and matches a call when
\* that name is empty or a prefix of the call's method name, XOR inversion.
\* Configured "a" without inversion matches "a:b" and "a:" and matches
\* neither "ab" nor "b:a".
\* ------------------------------------------------------------------------
\* the configured service name with its delimiter
Delimited(name) ==
  IF name = <<>> \/ name[Len(name)] = ":" THEN name ELSE name \o <<":">>

C16_ServiceName ==
  RoutedBy("service") =>
    LET cfg    == route_config[1]
        prefix == Delimited(cfg.name)
        hit    == cfg.name = <<>>
                    \/ (metadata.hasMethodName /\ IsPrefix(prefix, metadata.methodName))
    IN /\ routes_[1].name_ = prefix
       /\ route_result.found <=> (hit # cfg.invert)
       /\ (cfg.name = <<"a">> /\ ~cfg.invert /\ metadata.hasMethodName) =>
            /\ metadata.methodName \in {<<"a", ":", "b">>, <<"a", ":">>} => route_result.found
            /\ metadata.methodName \in {<<"a", "b">>, <<"b", ":", "a">>} => ~route_result.found

\* service "a" routed the call "a:b"
C16_Witness ==
  /\ RoutedBy("service")
  /\ route_config[1].name = <<"a">> /\ ~route_config[1].invert
  /\ metadata.hasMethodName /\ metadata.methodName = <<"a", ":", "b">>
  /\ route_result.found

\* ------------------------------------------------------------------------
\* C17: a method-name rule whose header matchers the call satisfies: with
\* inversion and a non-empty name it matches every call whose method name
\* differs from the configured one, calls without a method name included,
\* and none whose method name equals it; without inversion it matches
\* exactly when the configured name is empty or equals the call's.
\* ------------------------------------------------------------------------
\* the call names the method the rule is configured with
SameMethod == metadata.hasMethodName /\ metadata.methodName = route_config[1].name

C17_MethodName ==
  RoutedBy("method") =>
    LET cfg == route_config[1] IN
    /\ (cfg.invert /\ cfg.name # <<>>) => (route_result.found <=> ~SameMethod)
    /\ ~cfg.invert => (route_result.found <=> (cfg.name = <<>> \/ SameMethod))

\* an inverted rule for "a" routed a call that names no method
C17_Witness ==
  /\ RoutedBy("method")
  /\ route_config[1].invert /\ route_config[1].name = <<"a">>
  /\ ~metadata.hasMethodName
  /\ route_result.found

\* ------------------------------------------------------------------------
\* C18: a rule with an empty match name and inversion enabled is rejected
\* when the rule is built: a configuration that holds one leaves no
\* RouteMatcher and no call is ever routed through it, so no route entry
\* with an empty name and inversion exists; any other configuration builds
\* one entry per rule.
\* ------------------------------------------------------------------------
\* rule i of the configuration has an empty name and inversion enabled
EmptyInverted(i) == route_config[i].name = <<>> /\ route_config[i].invert

C18_EmptyNameRejected ==
  /\ \A i \in 1..Len(routes_) : ~(routes_[i].name_ = <<>> /\ routes_[i].invert_)
  /\ IF \E i \in 1..Len(route_config) : EmptyInverted(i)
     THEN routes_ = <<>> /\ route_result = NotRouted
     ELSE Len(routes_) = Len(route_config)

\* an inverted method rule without a name was configured and no matcher built
C18_Witness ==
  /\ Len(route_config) = 1
  /\ route_config[1].kind = "method"
  /\ EmptyInverted(1)
  /\ routes_ = <<>>

\* ------------------------------------------------------------------------
\* C19: response-timing finalization is idempotent.  The response latency of
\* a request is recorded at most once, and only after onRequestComplete;
\* chargeResponseTiming invoked twice in a row leaves what one invocation
\* leaves.
\* ------------------------------------------------------------------------
\* the entries that record the upstream_rq_time histogram
Charges == {j \in 1..Len(hist) : hist[j].e = "recordHistogram"}

C19_ChargeOnce ==
  /\ Cardinality(Charges) <= 1
  /\ \A j \in Charges :
       \E i \in 1..(j - 1) : hist[i].e = "onRequestComplete"
  /\ ( /\ Count("UpstreamRequest") = 1
       /\ upstream_request_.live
       /\ upstream_request_.charged_response_timing_ ) => Charges # {}
  /\ chargeResponseTiming(chargeResponseTiming(World)) = chargeResponseTiming(World)

\* a Call underflowed after its request was complete: onResponseComplete and
\* onResetStream both finalized the timing, and it was recorded once
C19_Witness ==
  /\ LastOp = "onUpstreamData"
  /\ LastDid("onResponseComplete") /\ LastDid("onResetStream")
  /\ hist[OpStart(Len(hist))].t = "Call"
  /\ Cardinality(Charges) = 1
  /\ \A j \in Charges : j \in InHandler(Len(hist))

\* ------------------------------------------------------------------------
\* C20: pipeline resumption matches suspension.  continueDecoding is invoked
\* at most once per request, only after start() returned StopIteration for
\* it, and exactly when a suspended request reaches request start (in
\* onPoolReady delivered later, or when the upgrade response completes); a
\* request whose connection was ready at once with no upgrade pending is
\* never resumed.
\* ------------------------------------------------------------------------
Resumes == {j \in 1..Len(hist) : hist[j].e = "continueDecoding"}

\* the request reaches request start: onRequestStart stamps its sequence id
RequestStarts == {j \in 1..Len(hist) : hist[j].e = "setSequenceId"}

\* start() had returned StopIteration before entry j
Suspended(j) ==
  \E i \in 1..(j - 1) : hist[i].e = "start" /\ hist[i].a = "StopIteration"

C20_ResumeMatchesSuspend ==
  /\ Cardinality(Resumes) <= 1
  /\ \A j \in Resumes :
       /\ Suspended(j)
       /\ (j - 1) \in RequestStarts
       /\ Handler(j) \in {"onPoolReady", "onUpstreamData"}
  /\ \A k \in RequestStarts :
       IF Suspended(k) THEN (k + 1) \in Resumes ELSE (k + 1) \notin Resumes
  /\ (\E i \in 1..Len(hist) : hist[i].e = "start" /\ hist[i].a = "Continue") => Resumes = {}

\* a request that waited for its upgrade response was resumed when it came
C20_Witness ==
  /\ LastOp = "onUpstreamData"
  /\ LastDid("continueDecoding")
  /\ Ops("onPoolReady") = 0
  /\ Cardinality(Resumes) = 1
  /\ dpc = "body"

\* ------------------------------------------------------------------------
\* C21: while an upgrade response is outstanding on an UpstreamRequest,
\* upstream bytes go to the upgrade-response parser only: no
\* startUpstreamResponse, no upstreamData, no sequence id.  Request start
\* happens at most once per request, and exactly once at each of its two
\* places: right after the upgrade is completed and its parser discarded,
\* or at once in onPoolReady when no upgrade response is pending.
\* ------------------------------------------------------------------------
\* the current call's UpstreamRequest waits for its upgrade response
UpgradeOutstanding ==
  /\ Count("UpstreamRequest") = 1
  /\ upstream_request_.live
  /\ upstream_request_.upgrade_response_

ResponseOrStart == {"startUpstreamResponse", "upstreamData", "setSequenceId"}

\* onPoolReady ran: it reports the connect success to the host first
PoolReadies ==
  {j \in 1..Len(hist) : hist[j].e = "putResult" /\ hist[j].a = "LocalOriginConnectSuccess"}

UpgradesCompleted == {j \in 1..Len(hist) : hist[j].e = "completeUpgrade"}

UpgradeWritten(j) == hist[j].e = "write" /\ hist[j].a = "upgrade"

C21_UpgradeBeforeStart ==
  /\ UpgradeOutstanding => \A j \in 1..Len(hist) : hist[j].e \notin ResponseOrStart
  /\ \A k \in UpgradesCompleted :
       /\ \A j \in 1..(k - 1) : hist[j].e \notin ResponseOrStart
       /\ \E j \in 1..(k - 1) : UpgradeWritten(j)
       /\ \A j \in InHandler(k) : hist[j].e \notin {"startUpstreamResponse", "upstreamData"}
       /\ (k + 1) \in RequestStarts
       /\ k \in InHandler(Len(hist)) => ~(upstream_request_.live /\ upstream_request_.upgrade_response_)
  /\ \A k \in PoolReadies :
       /\ k < Len(hist)
       /\ UpgradeWritten(k + 1) \/ (k + 1) \in RequestStarts
       /\ UpgradeWritten(k + 1) => \A j \in InHandler(k) : j \notin RequestStarts
  /\ \A j \in RequestStarts : (j - 1) \in UpgradesCompleted \cup PoolReadies
  /\ Cardinality(RequestStarts) <= 1

\* the upgrade response came in two pieces: the first left the request
\* waiting, the second completed the upgrade and started the request
C21_Witness ==
  /\ Ops("onUpstreamData") = 2
  /\ LastOp = "onUpstreamData"
  /\ LastDid("completeUpgrade")
  /\ LastDid("setSequenceId")
  /\ upstream_request_.live
  /\ ~upstream_request_.upgrade_response_

\* ------------------------------------------------------------------------
\* C22: the protocol state of a pooled connection is attached to the
\* connection, made at most once per connection (by the first onPoolReady
\* that finds none) and used by every later request on it; each request
\* start takes the connection's next sequence id, so no two calls forwarded
\* on one connection get the same id, and the counter is never set back by
\* a request that completes or is reset.
\* ------------------------------------------------------------------------
\* the ids connection c handed out are 0, 1, 2, ... in this order
IssuedInOrder(c) == \A i \in 1..Len(conns[c].issued) : conns[c].issued[i] = i - 1

C22_ConnectionSequence ==
  \A c \in Conns :
    /\ conns[c].created <= 1
    /\ conns[c].state <=> (conns[c].created = 1)
    /\ \A i, j \in 1..Len(conns[c].issued) :
         i # j => conns[c].issued[i] # conns[c].issued[j]
    /\ IssuedInOrder(c)
    /\ conns[c].next_sequence_id_ = Len(conns[c].issued)
    /\ conns[c].issued # <<>> => conns[c].state
    /\ (upstream_request_.live /\ upstream_request_.conn_state_ = c) =>
         (conns[c].state /\ conns[c].borrowed)

\* a second call was forwarded on the connection the first one had given
\* back: it found the connection's state and got the next id
C22_Witness ==
  \E c \in Conns :
    /\ ncalls = 2
    /\ conns[c].issued = <<0, 1>>
    /\ conns[c].created = 1
    /\ LastDid("setSequenceId")
    /\ upstream_request_.conn_state_ = c

\* ------------------------------------------------------------------------
\* C23 as claimed: start() returns Continue only when a connection has been
\* acquired and the request has started, whatever newConnection did (left
\* the acquisition pending, called onPoolReady, or called onPoolFailure with
\* or without a host), so that messageEnd never writes through a null
\* conn_data_.
\* ------------------------------------------------------------------------
\* messageBegin has just returned what start() returned
StartReturned(status) ==
  /\ LastOp = "messageBegin"
  /\ hist[Len(hist)].e = "start"
  /\ hist[Len(hist)].a = status

\* what newConnection did in the current call
Acquisition(how) == \E j \in 1..Len(hist) : hist[j].e = "newConnection" /\ hist[j].a = how

C23_Original ==
  StartReturned("Continue") =>
    /\ upstream_request_.live
    /\ upstream_request_.conn_data_ # Null
    /\ LastDid("setSequenceId")

\* newConnection failed at once with a host selected, start() returned
\* Continue all the same, and messageEnd went through the null conn_data_
C23_Witness ==
  /\ LastOp = "messageEnd"
  /\ Count("op") = 2
  /\ Acquisition("failure")
  /\ \E j \in 1..Len(hist) :
       hist[j].e = "start" /\ hist[j].a = "Continue" /\ hist[j].h # Null
  /\ LastDid("crash")
  /\ upstream_request_.conn_data_ = Null

\* ------------------------------------------------------------------------
\* C24 as claimed: whenever messageEnd, transportEnd or onUpstreamData runs,
\* the Router holds a live UpstreamRequest, and for messageEnd one with a
\* borrowed connection, however the downstream decode steps interleave with
\* upstream data and connection events.
\* ------------------------------------------------------------------------
\* this step is handler name running
Runs(name) ==
  /\ Len(hist') > Len(hist)
  /\ hist'[Len(hist) + 1].e = "op"
  /\ hist'[Len(hist) + 1].a = name

\* the UpstreamRequest holds a connection borrowed from the pool
HoldsConnection ==
  /\ upstream_request_.conn_data_ # Null
  /\ upstream_request_.conn_data_ \in Borrowed

C24_Original ==
  [][ /\ (Runs("messageEnd") \/ Runs("transportEnd") \/ Runs("onUpstreamData")) =>
           upstream_request_.live
      /\ Runs("messageEnd") => HoldsConnection
    ]_vars

\* the response completed and the Router dropped the UpstreamRequest before
\* the downstream reached the end of the call: messageEnd went through the
\* null upstream_request_
C24_Witness ==
  /\ LastOp = "messageEnd"
  /\ hist[OpStart(Len(hist))].t = "none"
  /\ LastDid("crash")
  /\ Count("sendLocalReply") + Count("resetDownstreamConnection") = 0
  /\ \E j \in 1..Len(hist) : hist[j].e = "upstreamData" /\ hist[j].a = "Complete"

\* ------------------------------------------------------------------------
\* C25 as claimed: whenever onResetStream reports a health outcome for a
\* call that is not one-way (LocalConnectionFailure, RemoteConnectionFailure
\* or Timeout), an upstream host has been recorded for the request: the
\* outlier-detector report is never reached with a null upstream_host_.
\* ------------------------------------------------------------------------
\* the reasons onResetStream reports to the host's outlier detector
HealthReasons == {"LocalConnectionFailure", "RemoteConnectionFailure", "Timeout"}

\* entry i is onResetStream about to report to the host
ReportsHealth(i) ==
  /\ IsReset(i)
  /\ hist[i].t # "Oneway"
  /\ hist[i].a \in HealthReasons

C25_Original ==
  \A i \in 1..Len(hist) : ReportsHealth(i) => hist[i].h # Null

\* the pool gave the acquisition up with a timeout and no host: onResetStream
\* went through the null upstream_host_
C25_Witness ==
  /\ LastOp = "onPoolFailure"
  /\ \E i \in InHandler(Len(hist)) :
       /\ ReportsHealth(i)
       /\ hist[i].a = "Timeout"
       /\ hist[i].h = Null
       /\ Crashed(i)
  /\ crashed
====
